---- MODULE Spec2Model ----
(***************************************************************************)
(* The sequential local-minimisation driver of package optimize            *)
(* (src/local.go): Local, minimize, getStartingLocation, checkConvergence, *)
(* evaluate, update, copyLocation, invalidate and getDefaultMethod.        *)
(*                                                                         *)
(* The objective, the Method, the Recorder and the two Statuser probes are *)
(* caller-supplied collaborators: every value they return is drawn from a  *)
(* small set with \E.  A collaborator call is assumed to return, and a     *)
(* Method is assumed not to write into the Location it is handed.          *)
(***************************************************************************)
EXTENDS Integers, Sequences, FiniteSets, TLC

(***************************************************************************)
(* float64.  Finite values are small integers; the three special values    *)
(* are integers outside the finite range, ordered so that the integer      *)
(* order agrees with the float order on everything but NaN.  Every         *)
(* comparison with NaN is false, as in IEEE 754.                           *)
(***************************************************************************)
NaN == 100
PosInf == 50
NegInf == -50

IsNaN(a) == a = NaN
\* math.IsInf(a, sign): sign > 0 is +Inf, sign < 0 is -Inf, sign = 0 is either
IsInf(a, sign) ==
    \/ sign >= 0 /\ a = PosInf
    \/ sign <= 0 /\ a = NegInf
Lt(a, b) == ~IsNaN(a) /\ ~IsNaN(b) /\ a < b
Le(a, b) == ~IsNaN(a) /\ ~IsNaN(b) /\ a <= b
FAbs(a) == IF IsNaN(a) THEN NaN ELSE IF a < 0 THEN 0 - a ELSE a
\* math.Max: NaN if either argument is NaN
FMax(a, b) == IF IsNaN(a) \/ IsNaN(b) THEN NaN ELSE IF a < b THEN b ELSE a

RECURSIVE NormFrom(_, _, _)
NormFrom(s, i, acc) ==
    IF i > Len(s) THEN acc ELSE NormFrom(s, i + 1, FMax(acc, FAbs(s[i])))
\* floats.Norm(s, math.Inf(1)): the maximum absolute value, from 0
Norm(s) == NormFrom(s, 1, 0)

(***************************************************************************)
(* Bounds of the model.                                                    *)
(***************************************************************************)
\* the problem dimension len(initX)
Dim == 1
\* iterations of the loop of minimize in one run: after that many, the method
\* is not asked for another
MaxSteps == 2
\* the largest elapsed runtime, in ticks
MaxRuntime == 1

(***************************************************************************)
(* Enumerations.                                                           *)
(***************************************************************************)
NoEvaluation == "NoEvaluation"
FuncEvaluation == "FuncEvaluation"
GradEvaluation == "GradEvaluation"
HessEvaluation == "HessEvaluation"
FuncGradEvaluation == "FuncGradEvaluation"
FuncGradHessEvaluation == "FuncGradHessEvaluation"
\* an EvaluationType value outside the declared ones
UnknownEvaluation == "UnknownEvaluation"
EvaluationTypes ==
    {NoEvaluation, FuncEvaluation, GradEvaluation, HessEvaluation,
     FuncGradEvaluation, FuncGradHessEvaluation}

InitIteration == "InitIteration"
MajorIteration == "MajorIteration"
MinorIteration == "MinorIteration"
PostIteration == "PostIteration"

NotTerminated == "NotTerminated"
GradientThreshhold == "GradientThreshold"
FunctionThreshhold == "FunctionThreshold"
FunctionNegativeInfinity == "FunctionNegativeInfinity"
FunctionEvaluationLimit == "FunctionEvaluationLimit"
GradientEvaluationLimit == "GradientEvaluationLimit"
HessianEvaluationLimit == "HessianEvaluationLimit"
RuntimeLimit == "RuntimeLimit"
IterationLimit == "IterationLimit"
Failure == "Failure"
TerminalStatuses ==
    {GradientThreshhold, FunctionThreshhold, FunctionNegativeInfinity,
     FunctionEvaluationLimit, GradientEvaluationLimit, HessianEvaluationLimit,
     RuntimeLimit, IterationLimit, Failure}

NoErr == "nil"
ErrNaN == "ErrNaN"
ErrInf == "ErrInf"
ErrGradNaN == "ErrGradNaN"
ErrGradInf == "ErrGradInf"
ErrSatisfies == "ErrMethodNeeds"
ErrStatuser == "ErrFunctionStatus"
ErrMethodStatus == "ErrMethodStatus"
ErrRecorderInit == "ErrRecorderInit"
ErrRecord == "ErrRecord"
ErrMethodInit == "ErrMethodInit"
ErrIterate == "ErrIterate"

(***************************************************************************)
(* Location and Stats.  A nil slice is the empty sequence (the dimension   *)
(* is at least 1, so an allocated slice is never empty).  The symmetric    *)
(* Hessian is kept as its cell (0,0), the one cell the driver reads or     *)
(* writes: <<>> is a nil matrix, <<h>> an allocated one.                   *)
(***************************************************************************)
Vec(v) == [i \in 1..Dim |-> v]
ZeroStats ==
    [FuncEvaluations |-> 0, GradEvaluations |-> 0, FuncGradEvaluations |-> 0,
     FuncGradHessEvaluations |-> 0, HessEvaluations |-> 0,
     MajorIterations |-> 0, Runtime |-> 0]
\* the zero value &Location{}
ZeroLocation == [X |-> <<>>, F |-> 0, Gradient |-> <<>>, Hessian |-> <<>>]

\* copy(dst, src) over slices of equal length
copyLocation(dst, src) ==
    [X |-> src.X,
     F |-> src.F,
     Gradient |-> src.Gradient,
     Hessian |-> IF src.Hessian # <<>> THEN src.Hessian ELSE dst.Hessian]

\* invalidate that forgets the Hessian
invalidateNoHessian(l, f, grad, hess) ==
    [X |-> l.X,
     F |-> IF f THEN NaN ELSE l.F,
     Gradient |-> IF grad /\ l.Gradient # <<>>
                  THEN [l.Gradient EXCEPT ![1] = NaN] ELSE l.Gradient,
     Hessian |-> l.Hessian]
invalidate(l, f, grad, hess) ==
    [X |-> l.X,
     F |-> IF f THEN NaN ELSE l.F,
     Gradient |-> IF grad /\ l.Gradient # <<>>
                  THEN [l.Gradient EXCEPT ![1] = NaN] ELSE l.Gradient,
     Hessian |-> IF hess /\ l.Hessian # <<>>
                 THEN <<NaN>> ELSE l.Hessian]

(***************************************************************************)
(* evaluate.  The objective's answers are the parameters fv (the function  *)
(* value), gv (the gradient) and hv (the Hessian's cell (0,0)); calls      *)
(* counts the objective's entry points as they are invoked.  An objective  *)
(* handed a nil slice or matrix has nothing to write into.                 *)
(***************************************************************************)
ZeroCalls == [Func |-> 0, Grad |-> 0, FuncGrad |-> 0, FuncGradHess |-> 0, Hess |-> 0]

\* stats.<counter>++
incr(st, counter) == [st EXCEPT ![counter] = @ + 1]
\* one invocation of an entry point of the objective
invoke(cl, entry) == [cl EXCEPT ![entry] = @ + 1]

\* slices compared by their length alone
floatsSameLength(a, b) == Len(a) = Len(b)
\* floats.Equal(loc.X, xNext)
floatsEqual(a, b) ==
    /\ Len(a) = Len(b)
    /\ \A i \in 1..Len(a) : ~IsNaN(a[i]) /\ ~IsNaN(b[i]) /\ a[i] = b[i]

storeGrad(l, gv) == IF l.Gradient = <<>> THEN l ELSE [l EXCEPT !.Gradient = gv]
storeHess(l, hv) == IF l.Hessian = <<>> THEN l ELSE [l EXCEPT !.Hessian = <<hv>>]
\* mat64.NewSymDense(len(loc.X), nil) when loc.Hessian == nil
allocHess(l) == IF l.Hessian = <<>> THEN [l EXCEPT !.Hessian = <<0>>] ELSE l
\* make([]float64, len(loc.X)) when loc.Gradient == nil
allocGrad(l) == IF l.Gradient = <<>> THEN [l EXCEPT !.Gradient = Vec(0)] ELSE l

\* the combined function+gradient preferred to the bare gradient
gradBranchCombinedFirst(fi) ==
    IF fi.IsFunctionGradient THEN "FuncGrad"
    ELSE IF fi.IsGradient THEN "Grad"
    ELSE IF fi.IsFunctionGradientHessian THEN "FuncGradHess"
    ELSE "unsupported"
\* The objective entry point(s) each case of the switch settles on.
gradBranch(fi) ==
    IF fi.IsGradient THEN "Grad"
    ELSE IF fi.IsFunctionGradient THEN "FuncGrad"
    ELSE IF fi.IsFunctionGradientHessian THEN "FuncGradHess"
    ELSE "unsupported"
hessBranch(fi) ==
    IF fi.IsHessian THEN "Hess"
    ELSE IF fi.IsFunctionGradientHessian THEN "FuncGradHess"
    ELSE "unsupported"
\* the combined triple preferred to the two bare calls
funcGradBranchTripleFirst(fi) ==
    IF fi.IsFunctionGradient THEN "FuncGrad"
    ELSE IF fi.IsFunctionGradientHessian THEN "FuncGradHess"
    ELSE IF fi.IsGradient THEN "Func+Grad"
    ELSE "unsupported"
funcGradBranch(fi) ==
    IF fi.IsFunctionGradient THEN "FuncGrad"
    ELSE IF fi.IsGradient THEN "Func+Grad"
    ELSE IF fi.IsFunctionGradientHessian THEN "FuncGradHess"
    ELSE "unsupported"
\* the decomposition taken when either bare form is there
funcGradHessBranchAnyBare(fi) ==
    IF fi.IsFunctionGradientHessian THEN "FuncGradHess"
    ELSE IF fi.IsGradient \/ fi.IsHessian THEN "Func+Grad+Hess"
    ELSE "unsupported"
funcGradHessBranch(fi) ==
    IF fi.IsFunctionGradientHessian THEN "FuncGradHess"
    ELSE IF fi.IsGradient /\ fi.IsHessian THEN "Func+Grad+Hess"
    ELSE "unsupported"

evalResult(l, st, cl, panicked) ==
    [loc |-> l, stats |-> st, calls |-> cl, panic |-> panicked]

\* the bare function counted as a combined function+gradient call
callFuncCountedAsCombined(r, fv) ==
    evalResult([r.loc EXCEPT !.F = fv], incr(r.stats, "FuncGradEvaluations"),
               invoke(r.calls, "Func"), FALSE)
\* loc.F = Func(loc.X); stats.FuncEvaluations++
callFunc(r, fv) ==
    evalResult([r.loc EXCEPT !.F = fv], incr(r.stats, "FuncEvaluations"),
               invoke(r.calls, "Func"), FALSE)
\* the bare gradient called without stats.GradEvaluations++
callGradUncounted(r, gv) ==
    evalResult(storeGrad(r.loc, gv), r.stats, invoke(r.calls, "Grad"), FALSE)
\* Grad(loc.X, loc.Gradient); stats.GradEvaluations++
callGrad(r, gv) ==
    evalResult(storeGrad(r.loc, gv), incr(r.stats, "GradEvaluations"),
               invoke(r.calls, "Grad"), FALSE)
\* Hess(loc.X, loc.Hessian); stats.HessEvaluations++
callHess(r, hv) ==
    evalResult(storeHess(r.loc, hv), incr(r.stats, "HessEvaluations"),
               invoke(r.calls, "Hess"), FALSE)
\* loc.F = FuncGrad(loc.X, loc.Gradient); stats.FuncGradEvaluations++
callFuncGrad(r, fv, gv) ==
    evalResult([storeGrad(r.loc, gv) EXCEPT !.F = fv],
               incr(r.stats, "FuncGradEvaluations"),
               invoke(r.calls, "FuncGrad"), FALSE)
\* loc.F = FuncGradHess(loc.X, loc.Gradient, loc.Hessian); stats.FuncGradHessEvaluations++
callFuncGradHess(r, fv, gv, hv) ==
    evalResult([storeHess(storeGrad(r.loc, gv), hv) EXCEPT !.F = fv],
               incr(r.stats, "FuncGradHessEvaluations"),
               invoke(r.calls, "FuncGradHess"), FALSE)

evaluate(fi, et, xn, l0, st, cl, fv, gv, hv) ==
    LET different == ~floatsEqual(l0.X, xn)
        l1 == IF different THEN [l0 EXCEPT !.X = xn] ELSE l0
        inv(f, g, h) == IF different THEN invalidate(l1, f, g, h) ELSE l1
        at(l) == evalResult(l, st, cl, FALSE)
        unsupported == evalResult(l1, st, cl, TRUE)
    IN  CASE et = FuncEvaluation ->
               callFunc(at(inv(FALSE, TRUE, TRUE)), fv)
          [] et = GradEvaluation ->
               LET b == gradBranch(fi)
               IN  CASE b = "Grad" -> callGrad(at(inv(TRUE, FALSE, TRUE)), gv)
                     [] b = "FuncGrad" ->
                          callFuncGrad(at(inv(FALSE, FALSE, TRUE)), fv, gv)
                     [] b = "FuncGradHess" ->
                          callFuncGradHess(at(allocHess(l1)), fv, gv, hv)
                     [] OTHER -> unsupported
          [] et = HessEvaluation ->
               LET b == hessBranch(fi)
               IN  CASE b = "Hess" -> callHess(at(inv(TRUE, TRUE, FALSE)), hv)
                     [] b = "FuncGradHess" ->
                          callFuncGradHess(at(allocGrad(l1)), fv, gv, hv)
                     [] OTHER -> unsupported
          [] et = FuncGradEvaluation ->
               LET b == funcGradBranch(fi)
               IN  CASE b = "FuncGrad" ->
                          callFuncGrad(at(inv(FALSE, FALSE, TRUE)), fv, gv)
                     [] b = "Func+Grad" ->
                          callGrad(callFunc(at(inv(FALSE, FALSE, TRUE)), fv), gv)
                     [] b = "FuncGradHess" ->
                          callFuncGradHess(at(allocHess(l1)), fv, gv, hv)
                     [] OTHER -> unsupported
          [] et = FuncGradHessEvaluation ->
               LET b == funcGradHessBranch(fi)
               IN  CASE b = "FuncGradHess" ->
                          callFuncGradHess(at(l1), fv, gv, hv)
                     [] b = "Func+Grad+Hess" ->
                          callHess(callGrad(callFunc(at(l1), fv), gv), hv)
                     [] OTHER -> unsupported
          [] et = NoEvaluation ->
               \* panics when different, otherwise returns at once
               evalResult(l1, st, cl, different)
          [] OTHER -> unsupported

\* update without stats.MajorIterations++
updateUncounted(l, opt, st, it, now) ==
    [optLoc |-> IF Le(l.F, opt.F) THEN copyLocation(opt, l) ELSE opt,
     stats |-> [st EXCEPT !.Runtime = now]]
\* ties kept with the older point
updateStrict(l, opt, st, it, now) ==
    LET st1 == IF it = MajorIteration THEN incr(st, "MajorIterations") ELSE st
    IN  [optLoc |-> IF Lt(l.F, opt.F) THEN copyLocation(opt, l) ELSE opt,
         stats |-> [st1 EXCEPT !.Runtime = now]]
\* the comparison of update turned around
updateReversed(l, opt, st, it, now) ==
    LET st1 == IF it = MajorIteration THEN incr(st, "MajorIterations") ELSE st
    IN  [optLoc |-> IF Le(opt.F, l.F) THEN copyLocation(opt, l) ELSE opt,
         stats |-> [st1 EXCEPT !.Runtime = now]]
\* update, with the elapsed time read from the clock as now
update(l, opt, st, it, now) ==
    LET st1 == IF it = MajorIteration THEN incr(st, "MajorIterations") ELSE st
    IN  [optLoc |-> IF Le(l.F, opt.F) THEN copyLocation(opt, l) ELSE opt,
         stats |-> [st1 EXCEPT !.Runtime = now]]

\* a limit that counts only once it is exceeded
limitExceeded(total, limit) == limit > 0 /\ total > limit
\* if settings.<limit> > 0 { if total >= settings.<limit> { return ... } }
limitReached(total, limit) == limit > 0 /\ total >= limit

\* the two tolerances looked at on a major iteration only
checkConvergenceMajorOnly(l, it, st, se) ==
    IF it = MajorIteration
       /\ l.Gradient # <<>> /\ Lt(Norm(l.Gradient), se.GradientAbsTol)
    THEN GradientThreshhold
    ELSE IF it = MajorIteration
            /\ Lt(l.F, se.FunctionAbsTol)
    THEN FunctionThreshhold
    ELSE IF IsInf(l.F, -1)
    THEN FunctionNegativeInfinity
    ELSE IF limitReached(st.FuncEvaluations + st.FuncGradEvaluations
                         + st.FuncGradHessEvaluations, se.FuncEvaluations)
    THEN FunctionEvaluationLimit
    ELSE IF limitReached(st.GradEvaluations + st.FuncGradEvaluations
                         + st.FuncGradHessEvaluations, se.GradEvaluations)
    THEN GradientEvaluationLimit
    ELSE IF limitReached(st.HessEvaluations + st.FuncGradHessEvaluations,
                         se.HessEvaluations)
    THEN HessianEvaluationLimit
    ELSE IF limitReached(st.Runtime, se.Runtime)
    THEN RuntimeLimit
    ELSE IF it = MajorIteration
            /\ limitReached(st.MajorIterations, se.MajorIterations)
    THEN IterationLimit
    ELSE NotTerminated
checkConvergence(l, it, st, se) ==
    IF (it = MajorIteration \/ it = InitIteration)
       /\ l.Gradient # <<>> /\ Lt(Norm(l.Gradient), se.GradientAbsTol)
    THEN GradientThreshhold
    ELSE IF (it = MajorIteration \/ it = InitIteration)
            /\ Lt(l.F, se.FunctionAbsTol)
    THEN FunctionThreshhold
    ELSE IF IsInf(l.F, -1)
    THEN FunctionNegativeInfinity
    ELSE IF limitReached(st.FuncEvaluations + st.FuncGradEvaluations
                         + st.FuncGradHessEvaluations, se.FuncEvaluations)
    THEN FunctionEvaluationLimit
    ELSE IF limitReached(st.GradEvaluations + st.FuncGradEvaluations
                         + st.FuncGradHessEvaluations, se.GradEvaluations)
    THEN GradientEvaluationLimit
    ELSE IF limitReached(st.HessEvaluations + st.FuncGradHessEvaluations,
                         se.HessEvaluations)
    THEN HessianEvaluationLimit
    ELSE IF limitReached(st.Runtime, se.Runtime)
    THEN RuntimeLimit
    ELSE IF it = MajorIteration
            /\ limitReached(st.MajorIterations, se.MajorIterations)
    THEN IterationLimit
    ELSE NotTerminated

(***************************************************************************)
(* The arguments of Local.                                                 *)
(***************************************************************************)
\* method: nil, or a Method with its Needs() and whether it is a Statuser
NilMethod ==
    [IsNil |-> TRUE, NeedsGradient |-> FALSE, NeedsHessian |-> FALSE,
     IsStatuser |-> FALSE]
\* &BFGS{}: a quasi-Newton method, which needs the gradient
BFGS ==
    [IsNil |-> FALSE, NeedsGradient |-> TRUE, NeedsHessian |-> FALSE,
     IsStatuser |-> FALSE]

\* the points a method proposes; the initial point is InitX
XVals == {Vec(0), Vec(1)}
InitX == Vec(0)

\* An objective: its value, its gradient (every component the same) and its
\* Hessian's cell (0,0) at each of the two points.
Objective(f0, f1, g0, g1) == [F |-> <<f0, f1>>, G |-> <<g0, g1>>, H |-> <<1, 1>>]
FuncAt(obj, x) == obj.F[x[1] + 1]
GradAt(obj, x) == Vec(obj.G[x[1] + 1])
HessAt(obj, x) == obj.H[x[1] + 1]
ObjectiveSet ==
    {Objective(1, 0, 1, 0), Objective(0, 1, 1, 1),
     Objective(1, NaN, 1, NaN), Objective(1, NegInf, 1, NegInf),
     Objective(0, PosInf, 0, PosInf), Objective(0, 0, 0, 0),
     Objective(NaN, 0, 1, 1), Objective(PosInf, 0, 1, 1),
     Objective(NegInf, 0, 1, 1), Objective(0, 0, NaN, 1),
     Objective(0, 0, PosInf, 1), Objective(0, 0, NegInf, 1)}

Settings(gtol, ftol, fe, ge, he, rt, mi, rec, init, initF, initG) ==
    [GradientAbsTol |-> gtol, FunctionAbsTol |-> ftol,
     FuncEvaluations |-> fe, GradEvaluations |-> ge, HessEvaluations |-> he,
     Runtime |-> rt, MajorIterations |-> mi, HasRecorder |-> rec,
     UseInitialData |-> init, InitialFunctionValue |-> initF,
     InitialGradient |-> initG]
Limits(gtol, ftol, fe, ge, he, rt, mi) ==
    Settings(gtol, ftol, fe, ge, he, rt, mi, FALSE, FALSE, 0, <<>>)
\* no tolerance and no limit
Unlimited == Limits(0, NegInf, 0, 0, 0, 0, 0)
\* one tolerance or one limit, the rest switched off
LimitSet ==
    {Limits(1, NegInf, 0, 0, 0, 0, 0), Limits(0, 1, 0, 0, 0, 0, 0),
     Limits(0, NegInf, 1, 0, 0, 0, 0), Limits(0, NegInf, 2, 0, 0, 0, 0),
     Limits(0, NegInf, 0, 1, 0, 0, 0), Limits(0, NegInf, 0, 0, 1, 0, 0),
     Limits(0, NegInf, 0, 0, 0, 1, 0), Limits(0, NegInf, 0, 0, 0, 0, 1),
     Limits(2, NegInf, 0, 0, 0, 0, 0)}
WithRecorder(se) == [se EXCEPT !.HasRecorder = TRUE]
\* the caller's initial data: a value and a gradient
InitialData(se, initF, initG) ==
    [se EXCEPT !.UseInitialData = TRUE, !.InitialFunctionValue = initF,
               !.InitialGradient = initG]

Caps(g, fg, h, fgh) ==
    [IsGradient |-> g, IsFunctionGradient |-> fg, IsHessian |-> h,
     IsFunctionGradientHessian |-> fgh, IsStatuser |-> FALSE]
Statuser(x) == [x EXCEPT !.IsStatuser = TRUE]
Needs(g, h) ==
    [IsNil |-> FALSE, NeedsGradient |-> g, NeedsHessian |-> h,
     IsStatuser |-> FALSE]
AllCaps == {Caps(g, fg, h, fgh) : g \in BOOLEAN, fg \in BOOLEAN, h \in BOOLEAN,
                                  fgh \in BOOLEAN}
AllNeeds == {Needs(g, h) : g \in BOOLEAN, h \in BOOLEAN}

(***************************************************************************)
(* The calls of Local that are explored, as <<funcInfo, method, settings>>.*)
(***************************************************************************)
ConfigSet ==
    \* every objective with every method and with none, one function
    \* evaluation allowed
    (AllCaps \X (AllNeeds \cup {NilMethod}) \X {Limits(0, NegInf, 1, 0, 0, 0, 0)})
    \cup
    \* both tolerances set, one function evaluation allowed
    ({Caps(TRUE, FALSE, FALSE, FALSE)} \X {Needs(FALSE, FALSE), Needs(TRUE, FALSE)}
       \X {Limits(1, 1, 1, 0, 0, 0, 0), WithRecorder(Limits(1, 1, 1, 0, 0, 0, 0))})
    \cup
    \* no method given, nothing limited
    ({Caps(TRUE, FALSE, FALSE, FALSE)} \X {NilMethod} \X {Unlimited})
    \cup
    \* objectives of each shape, nothing limited
    {<<Caps(FALSE, FALSE, FALSE, FALSE), Needs(FALSE, FALSE), Unlimited>>,
     <<Caps(TRUE, FALSE, FALSE, FALSE), Needs(FALSE, FALSE), Unlimited>>,
     <<Caps(FALSE, TRUE, FALSE, FALSE), Needs(TRUE, FALSE), Unlimited>>,
     <<Caps(FALSE, FALSE, FALSE, TRUE), Needs(TRUE, TRUE), Unlimited>>,
     <<Caps(TRUE, FALSE, TRUE, FALSE), Needs(TRUE, TRUE), Unlimited>>,
     <<Caps(TRUE, FALSE, FALSE, TRUE), Needs(TRUE, FALSE), Unlimited>>,
     <<Caps(TRUE, TRUE, TRUE, TRUE), Needs(TRUE, TRUE), Unlimited>>}
    \cup
    \* each tolerance and each limit
    ({Caps(TRUE, FALSE, TRUE, FALSE)} \X {Needs(TRUE, FALSE)} \X LimitSet)
    \cup
    \* a Recorder and the two probes
    {<<Caps(TRUE, FALSE, FALSE, FALSE), Needs(TRUE, FALSE), WithRecorder(Unlimited)>>,
     <<Statuser(Caps(TRUE, FALSE, FALSE, FALSE)), Statuser(Needs(TRUE, FALSE)),
       WithRecorder(Unlimited)>>,
     <<Statuser(Caps(FALSE, TRUE, FALSE, FALSE)), Needs(FALSE, FALSE),
       WithRecorder(Limits(0, NegInf, 0, 0, 0, 0, 1))>>,
     <<Caps(FALSE, FALSE, FALSE, TRUE), Statuser(Needs(TRUE, TRUE)),
       WithRecorder(Limits(0, 1, 0, 0, 0, 0, 0))>>,
     <<Statuser(Caps(TRUE, FALSE, TRUE, FALSE)), Statuser(Needs(TRUE, FALSE)),
       WithRecorder(Limits(0, NegInf, 0, 0, 0, 0, 2))>>}
    \cup
    \* the caller's initial data
    ({Caps(TRUE, FALSE, FALSE, FALSE)} \X {Needs(TRUE, FALSE)}
       \X {InitialData(Unlimited, 0, Vec(1)), InitialData(Unlimited, NaN, Vec(0)),
           InitialData(Unlimited, 0, <<>>),
           InitialData(Limits(0, NegInf, 1, 0, 0, 0, 0), 1, Vec(1)),
           InitialData(WithRecorder(Limits(1, NegInf, 0, 0, 0, 0, 0)), 1, Vec(0))})

\* a Statuser's answer that lets the run go on: (NotTerminated, nil)
Alive == <<NotTerminated, NoErr>>

NoResult == [kind |-> "none", Location |-> ZeroLocation, Stats |-> ZeroStats,
             Status |-> NotTerminated]
NilResult == [kind |-> "nil", Location |-> ZeroLocation, Stats |-> ZeroStats,
              Status |-> NotTerminated]
Result(l, st, s) == [kind |-> "Result", Location |-> l, Stats |-> st, Status |-> s]

(***************************************************************************)
(* The state of one call of Local.                                         *)
(***************************************************************************)
VARIABLES
    pc,        \* where the call stands
    objective, \* the objective
    funcInfo,  \* the objective's capabilities
    method,    \* the method in use
    settings,  \* the settings in use
    loc,       \* the working location
    optLoc,    \* the best-known location
    xNext,     \* the next candidate point
    evalType,  \* the evaluation requested for the next step
    iterType,  \* the iteration kind of the next step
    stats,     \* Stats
    status,    \* the status so far
    err,       \* the error so far
    result,    \* what Local returned
    calls,     \* history: the objective's entry points invoked so far
    events,    \* history: what was done with the current location, in order
    seen,      \* history: the F of every working location so far
    steps,     \* history: the iterations of the loop so far
    probe      \* history: the last answer of the objective's probe in the loop

vars == <<pc, objective, funcInfo, method, settings, loc, optLoc, xNext, evalType,
          iterType, stats, status, err, result, calls, events, seen, steps,
          probe>>

(***************************************************************************)
(* Helpers of Local.                                                       *)
(***************************************************************************)
\* getDefaultMethod: the method, or "panic"
hasDefaultMethod(fi) == fi.IsGradient \/ fi.IsFunctionGradient

\* functionInfo.satisfies(method): what the method needs, some capability of
\* the objective provides
satisfies(fi, m) ==
    /\ m.NeedsGradient =>
         fi.IsGradient \/ fi.IsFunctionGradient \/ fi.IsFunctionGradientHessian
    /\ m.NeedsHessian => fi.IsHessian \/ fi.IsFunctionGradientHessian

\* the loop over loc.Gradient at the end of getStartingLocation
\* the loop over loc.Gradient left out
gradientErrorNone(g, i) == NoErr
RECURSIVE gradientError(_, _)
gradientError(g, i) ==
    IF i > Len(g) THEN NoErr
    ELSE IF IsInf(g[i], 0) THEN ErrGradInf
    ELSE IF IsNaN(g[i]) THEN ErrGradNaN
    ELSE gradientError(g, i + 1)

\* the check of loc.F for NaN left out
startingErrorNoNaN(l) ==
    IF IsInf(l.F, 1) THEN ErrInf ELSE gradientError(l.Gradient, 1)
startingError(l) ==
    IF IsNaN(l.F) THEN ErrNaN
    ELSE IF IsInf(l.F, 1) THEN ErrInf
    ELSE gradientError(l.Gradient, 1)

getStartingLocation(fi, m, initX, st, cl, se, fv, gv, hv) ==
    LET l0 == [X |-> initX, F |-> 0,
               Gradient |-> IF m.NeedsGradient THEN Vec(0) ELSE <<>>,
               Hessian |-> IF m.NeedsHessian THEN <<0>> ELSE <<>>]
        et == IF se.UseInitialData THEN NoEvaluation
              ELSE IF l0.Gradient # <<>> THEN FuncGradEvaluation
              ELSE FuncEvaluation
        mismatch == se.UseInitialData /\ l0.Gradient # <<>>
                    /\ Len(se.InitialGradient) # Len(initX)
        r == IF se.UseInitialData
             THEN evalResult(
                    [l0 EXCEPT !.F = se.InitialFunctionValue,
                               !.Gradient = IF l0.Gradient # <<>> /\ ~mismatch
                                            THEN se.InitialGradient ELSE @],
                    st, cl, mismatch)
             ELSE evaluate(fi, et, l0.X, l0, st, cl, fv, gv, hv)
    IN  [loc |-> r.loc, evalType |-> et, stats |-> r.stats, calls |-> r.calls,
         panic |-> r.panic, err |-> startingError(r.loc)]

\* time.Since(startTime): the clock never runs backwards
Clock(st) == st.Runtime..MaxRuntime
TotalCalls(cl) == cl.Func + cl.Grad + cl.FuncGrad + cl.FuncGradHess + cl.Hess

(***************************************************************************)
(* Local, lines 52-84: the method, its needs, the objective's probe and    *)
(* the Recorder's Init.                                                    *)
(***************************************************************************)
Init ==
    /\ pc = "Local"
    /\ objective \in ObjectiveSet
    /\ \E c \in ConfigSet :
         /\ funcInfo = c[1]
         /\ method = c[2]
         /\ settings = c[3]
    /\ loc = ZeroLocation
    /\ optLoc = ZeroLocation
    /\ xNext = <<>>
    /\ evalType = NoEvaluation
    /\ iterType = InitIteration
    /\ stats = ZeroStats
    /\ status = NotTerminated
    /\ err = NoErr
    /\ result = NoResult
    /\ calls = ZeroCalls
    /\ events = <<>>
    /\ seen = {}
    /\ steps = 0
    /\ probe = Alive

\* an empty Result returned with the error
ReturnEmptyResult(e) ==
    /\ pc' = "returned"
    /\ err' = e
    /\ result' = Result(ZeroLocation, ZeroStats, Failure)
\* return nil, err
ReturnNil(e) ==
    /\ pc' = "returned"
    /\ err' = e
    /\ result' = NilResult

Panic == pc' = "panic"

LocalConfigure ==
    /\ pc = "Local"
    /\ \E statusErr \in {NoErr, ErrStatuser}, initErr \in {NoErr, ErrRecorderInit} :
         LET m == IF method.IsNil THEN BFGS ELSE method
             probed == IF funcInfo.IsStatuser THEN <<"Status">> ELSE <<>>
             inited == IF settings.HasRecorder
                       THEN probed \o <<"Recorder.Init">> ELSE probed
         IN  IF method.IsNil /\ ~hasDefaultMethod(funcInfo)
             THEN Panic /\ UNCHANGED <<method, err, result, events>>
             ELSE /\ method' = m
                  /\ IF ~satisfies(funcInfo, m)
                     THEN ReturnNil(ErrSatisfies) /\ UNCHANGED events
                     ELSE IF funcInfo.IsStatuser /\ statusErr # NoErr
                     THEN ReturnNil(statusErr) /\ events' = probed
                     ELSE IF settings.HasRecorder /\ initErr # NoErr
                     THEN ReturnNil(initErr) /\ events' = inited
                     ELSE /\ pc' = "getStartingLocation"
                          /\ events' = inited
                          /\ UNCHANGED <<err, result>>
    /\ UNCHANGED <<probe, steps, objective, funcInfo, settings, loc, optLoc, xNext, evalType, iterType,
                   stats, status, calls, seen>>

(***************************************************************************)
(* Local, lines 86-90: the starting location.                              *)
(***************************************************************************)
LocalStartingLocation ==
    /\ pc = "getStartingLocation"
    /\ LET r == getStartingLocation(funcInfo, method, InitX, stats, calls,
                                    settings, FuncAt(objective, InitX),
                                    GradAt(objective, InitX),
                                    HessAt(objective, InitX))
       IN  /\ stats' = r.stats
           /\ calls' = r.calls
           /\ IF r.panic
              THEN Panic /\ UNCHANGED <<optLoc, evalType, err, result, events, seen>>
              ELSE /\ events' = IF r.evalType = NoEvaluation THEN events
                                ELSE Append(events, "evaluate")
                   /\ IF r.err # NoErr
                      THEN /\ ReturnNil(r.err)
                           /\ UNCHANGED <<optLoc, evalType, seen>>
                      ELSE /\ pc' = "started"
                           /\ optLoc' = r.loc
                           /\ evalType' = r.evalType
                           /\ seen' = {r.loc.F}
                           /\ UNCHANGED <<err, result>>
    /\ UNCHANGED <<probe, steps, objective, funcInfo, method, settings, loc, xNext,
                   iterType, status>>

(***************************************************************************)
(* Local, lines 92-106: the Recorder is sent the starting location, the    *)
(* starting location is checked for convergence, and minimize is entered   *)
(* if there is neither a status nor an error.                              *)
(***************************************************************************)
\* the convergence check made before the Recorder is sent the location
checkThenRecord(ev, hasRecorder) ==
    ev \o <<"checkConvergence">> \o (IF hasRecorder THEN <<"Record">> ELSE <<>>)
\* lines 94-100: the Recorder is sent the location, then the location is checked
recordThenCheck(ev, hasRecorder) ==
    (IF hasRecorder THEN Append(ev, "Record") ELSE ev) \o <<"checkConvergence">>

LocalCheckStart ==
    /\ pc = "started"
    /\ \E now \in Clock(stats), recErr \in {NoErr, ErrRecord} :
         LET st == [stats EXCEPT !.Runtime = now]
             e == IF settings.HasRecorder THEN recErr ELSE NoErr
             s == checkConvergence(optLoc, InitIteration, st, settings)
         IN  /\ stats' = st
             /\ err' = e
             /\ status' = s
             /\ events' = recordThenCheck(events, settings.HasRecorder)
             /\ pc' = IF s = NotTerminated /\ e = NoErr THEN "minimize" ELSE "finish"
    /\ UNCHANGED <<probe, steps, objective, funcInfo, method, settings, loc, optLoc, xNext, evalType,
                   iterType, result, calls, seen>>

(***************************************************************************)
(* minimize, lines 120-130: the working location and the method's Init.    *)
(***************************************************************************)
MinimizeInit ==
    /\ pc = "minimize"
    /\ \E et \in EvaluationTypes, it \in {MajorIteration, MinorIteration},
          x \in XVals, initErr \in {NoErr, ErrMethodInit} :
         /\ loc' = copyLocation(ZeroLocation, optLoc)
         /\ IF initErr # NoErr
            THEN /\ status' = Failure
                 /\ err' = initErr
                 /\ pc' = "finish"
                 /\ UNCHANGED <<xNext, evalType, iterType>>
            ELSE /\ xNext' = x
                 /\ evalType' = et
                 /\ iterType' = it
                 /\ pc' = "loop"
                 /\ UNCHANGED <<status, err>>
    /\ events' = Append(events, "Method.Init")
    /\ UNCHANGED <<probe, steps, objective, funcInfo, method, settings, optLoc, stats, result, calls, seen>>

(***************************************************************************)
(* minimize, lines 133-147: the objective's probe, then evaluate, update   *)
(* and checkConvergence.                                                   *)
(***************************************************************************)
\* what a Statuser's Status() may answer
ProbeAnswers == {NotTerminated, Failure} \X {NoErr, ErrStatuser}
\* a probe that stops the run only with an error
ProbeStopsOnError(a) == a[2] # NoErr
\* if err != nil || status != NotTerminated { return }
ProbeStops(a) == a[2] # NoErr \/ a[1] # NotTerminated

LoopEvaluate ==
    /\ pc = "loop"
    /\ steps' = steps + 1
    /\ \E a \in (IF funcInfo.IsStatuser THEN ProbeAnswers ELSE {Alive}) :
         LET probed == IF funcInfo.IsStatuser THEN <<"Status">> ELSE <<>>
         IN  /\ probe' = a
             /\ IF funcInfo.IsStatuser /\ ProbeStops(a)
                THEN /\ status' = a[1]
                     /\ err' = a[2]
                     /\ events' = probed
                     /\ pc' = "finish"
                     /\ UNCHANGED <<loc, optLoc, stats, calls, seen>>
                ELSE \E now \in Clock(stats) :
                       LET r == evaluate(funcInfo, evalType, xNext, loc, stats, calls,
                                         FuncAt(objective, xNext),
                                         GradAt(objective, xNext),
                                         HessAt(objective, xNext))
                           u == update(r.loc, optLoc, r.stats, iterType, now)
                       IN  /\ loc' = r.loc
                           /\ calls' = r.calls
                           /\ err' = NoErr
                           /\ IF r.panic
                              THEN /\ Panic
                                   /\ stats' = r.stats
                                   /\ events' = probed
                                   /\ UNCHANGED <<optLoc, status, seen>>
                              ELSE /\ optLoc' = u.optLoc
                                   /\ stats' = u.stats
                                   /\ status' = checkConvergence(u.optLoc, iterType,
                                                                 u.stats, settings)
                                   /\ events' = probed \o <<"evaluate", "checkConvergence">>
                                   /\ seen' = seen \cup {r.loc.F}
                                   /\ pc' = "record"
    /\ UNCHANGED <<objective, funcInfo, method, settings, xNext, evalType,
                   iterType, result>>

(***************************************************************************)
(* minimize, lines 149-175: the Recorder, the status, the method's probe   *)
(* and the method's Iterate.                                               *)
(***************************************************************************)
\* a failed Record always ending in Failure
recordFailedAlways(s) == Failure
\* lines 152-154: if status == NotTerminated { status = Failure }
recordFailed(s) == IF s = NotTerminated THEN Failure ELSE s

LoopAdvance ==
    /\ pc = "record"
    /\ LET recorded == IF settings.HasRecorder
                       THEN Append(events, "Record") ELSE events
           probed == IF method.IsStatuser
                     THEN Append(recorded, "Method.Status") ELSE recorded
       IN  \/ \* Record fails
              /\ settings.HasRecorder
              /\ err' = ErrRecord
              /\ status' = recordFailed(status)
              /\ events' = recorded
              /\ pc' = "finish"
              /\ UNCHANGED <<xNext, evalType, iterType>>
           \/ \* the location has a status
              /\ status # NotTerminated
              /\ events' = recorded
              /\ pc' = "finish"
              /\ UNCHANGED <<status, err, xNext, evalType, iterType>>
           \/ \* the method's probe stops the run
              /\ status = NotTerminated
              /\ steps < MaxSteps
              /\ method.IsStatuser
              /\ \E a \in {p \in {NotTerminated, Failure} \X {NoErr, ErrMethodStatus} :
                             ProbeStops(p)} :
                   /\ status' = a[1]
                   /\ err' = a[2]
              /\ events' = probed
              /\ pc' = "finish"
              /\ UNCHANGED <<xNext, evalType, iterType>>
           \/ \* Iterate fails
              /\ status = NotTerminated
              /\ steps < MaxSteps
              /\ status' = Failure
              /\ err' = ErrIterate
              /\ events' = Append(probed, "Iterate")
              /\ pc' = "finish"
              /\ UNCHANGED <<xNext, evalType, iterType>>
           \/ \* Iterate gives the next request
              /\ status = NotTerminated
              /\ steps < MaxSteps
              /\ \E et \in EvaluationTypes, it \in {MajorIteration, MinorIteration},
                    x \in XVals :
                   /\ xNext' = x
                   /\ evalType' = et
                   /\ iterType' = it
              /\ events' = Append(probed, "Iterate")
              /\ pc' = "loop"
              /\ UNCHANGED <<status, err>>
    /\ UNCHANGED <<probe, steps, objective, funcInfo, method, settings, loc, optLoc, stats, result,
                   calls, seen>>

(***************************************************************************)
(* Local, lines 108-117: the last Record and the Result.                   *)
(***************************************************************************)
LocalFinish ==
    /\ pc = "finish"
    /\ \E now \in Clock(stats), recErr \in {NoErr, ErrRecord} :
         LET st == [stats EXCEPT !.Runtime = now]
             post == settings.HasRecorder /\ err = NoErr
         IN  /\ err' = IF post THEN recErr ELSE err
             /\ events' = IF post THEN Append(events, "Record.Post") ELSE events
             /\ stats' = st
             /\ result' = Result(optLoc, st, status)
             /\ pc' = "returned"
    /\ UNCHANGED <<probe, steps, objective, funcInfo, method, settings, loc, optLoc, xNext, evalType,
                   iterType, status, calls, seen>>

Next ==
    \/ LocalConfigure
    \/ LocalStartingLocation
    \/ LocalCheckStart
    \/ MinimizeInit
    \/ LoopEvaluate
    \/ LoopAdvance
    \/ LocalFinish

Spec == Init /\ [][Next]_vars

(***************************************************************************)
(* checkConvergence on its own: one call on every combination of a         *)
(* best-known location, an iteration kind, Stats and Settings.             *)
(***************************************************************************)
\* Func, Grad, FuncGrad, FuncGradHess and Hess evaluations
CounterSamples ==
    {<<0, 0, 0, 0, 0>>, <<1, 0, 0, 0, 0>>, <<2, 0, 0, 0, 0>>, <<1, 0, 1, 0, 0>>,
     <<0, 1, 1, 0, 0>>, <<0, 0, 0, 1, 1>>, <<0, 0, 0, 2, 0>>, <<0, 2, 0, 0, 0>>,
     <<0, 0, 0, 0, 2>>, <<1, 1, 0, 0, 1>>}
StatsSamples ==
    {[FuncEvaluations |-> c[1], GradEvaluations |-> c[2],
      FuncGradEvaluations |-> c[3], FuncGradHessEvaluations |-> c[4],
      HessEvaluations |-> c[5], MajorIterations |-> mi, Runtime |-> rt] :
        c \in CounterSamples, mi \in {0, 1, 2}, rt \in 0..MaxRuntime}
LocationSamples ==
    {[X |-> InitX, F |-> f, Gradient |-> g, Hessian |-> <<>>] :
        f \in {NegInf, 0, PosInf, NaN},
        g \in {<<>>, Vec(0), Vec(1), Vec(NaN)}}
LimitSamples ==
    {Limits(gtol, ftol, fe, ge, he, rt, mi) :
        gtol \in {0, 1}, ftol \in {NegInf, 1}, fe \in {0, 2}, ge \in {0, 2},
        he \in {0, 2}, rt \in {0, 1}, mi \in {0, 2}}

InitConvergence ==
    /\ pc = "checkConvergence"
    /\ optLoc \in LocationSamples
    /\ iterType \in {InitIteration, MajorIteration, MinorIteration, PostIteration}
    /\ stats \in StatsSamples
    /\ settings \in LimitSamples
    /\ status = NotTerminated
    /\ objective = Objective(0, 0, 0, 0)
    /\ funcInfo = Caps(FALSE, FALSE, FALSE, FALSE)
    /\ method = NilMethod
    /\ loc = ZeroLocation
    /\ xNext = <<>>
    /\ evalType = NoEvaluation
    /\ err = NoErr
    /\ result = NoResult
    /\ calls = ZeroCalls
    /\ events = <<>>
    /\ seen = {}
    /\ steps = 0
    /\ probe = Alive

CheckConvergenceCall ==
    /\ pc = "checkConvergence"
    /\ status' = checkConvergence(optLoc, iterType, stats, settings)
    /\ pc' = "checked"
    /\ UNCHANGED <<probe, objective, funcInfo, method, settings, loc, optLoc, xNext,
                   evalType, iterType, stats, err, result, calls, events, seen,
                   steps>>

SpecConvergence == InitConvergence /\ [][CheckConvergenceCall]_vars

(***************************************************************************)
(* evaluate on its own: one call for every capability set, every           *)
(* evaluation type, and a candidate point equal to or different from the   *)
(* location's.                                                             *)
(***************************************************************************)
WorkingSamples ==
    {[X |-> x, F |-> 0, Gradient |-> g, Hessian |-> h] :
        x \in XVals, g \in {<<>>, Vec(1)}, h \in {<<>>, <<1>>}}

InitEvaluate ==
    /\ pc = "evaluate"
    /\ objective \in {Objective(1, 0, 1, 0), Objective(0, 1, 1, NaN)}
    /\ funcInfo \in AllCaps
    /\ evalType \in EvaluationTypes \cup {UnknownEvaluation}
    /\ loc \in WorkingSamples
    /\ xNext \in XVals
    /\ stats \in {ZeroStats,
                  [ZeroStats EXCEPT !.FuncEvaluations = 1, !.GradEvaluations = 2,
                                    !.FuncGradEvaluations = 3,
                                    !.FuncGradHessEvaluations = 4,
                                    !.HessEvaluations = 5]}
    /\ calls = ZeroCalls
    /\ settings = Unlimited
    /\ method = NilMethod
    /\ optLoc = ZeroLocation
    /\ iterType = MinorIteration
    /\ status = NotTerminated
    /\ err = NoErr
    /\ result = NoResult
    /\ events = <<>>
    /\ seen = {}
    /\ steps = 0
    /\ probe = Alive

EvaluateCall ==
    /\ pc = "evaluate"
    /\ LET r == evaluate(funcInfo, evalType, xNext, loc, stats, calls,
                         FuncAt(objective, xNext), GradAt(objective, xNext),
                         HessAt(objective, xNext))
       IN  /\ loc' = r.loc
           /\ stats' = r.stats
           /\ calls' = r.calls
           /\ pc' = IF r.panic THEN "panic" ELSE "evaluated"
    /\ UNCHANGED <<probe, objective, funcInfo, method, settings, optLoc, xNext,
                   evalType, iterType, status, err, result, events, seen, steps>>

SpecEvaluate == InitEvaluate /\ [][EvaluateCall]_vars

(***************************************************************************)
(* Properties.                                                             *)
(***************************************************************************)
\* the first rule of a list of <<condition, status>> that matches
RECURSIVE FirstMatch(_, _)
FirstMatch(rules, i) ==
    IF i > Len(rules) THEN NotTerminated
    ELSE IF rules[i][1] THEN rules[i][2]
    ELSE FirstMatch(rules, i + 1)

FuncTotal(st) ==
    st.FuncEvaluations + st.FuncGradEvaluations + st.FuncGradHessEvaluations
GradTotal(st) ==
    st.GradEvaluations + st.FuncGradEvaluations + st.FuncGradHessEvaluations
HessTotal(st) == st.HessEvaluations + st.FuncGradHessEvaluations

ConvergenceRules(l, it, st, se) ==
    LET gated == it \in {InitIteration, MajorIteration}
    IN  << <<gated /\ l.Gradient # <<>> /\ Lt(Norm(l.Gradient), se.GradientAbsTol),
             GradientThreshhold>>,
           <<gated /\ Lt(l.F, se.FunctionAbsTol), FunctionThreshhold>>,
           <<l.F = NegInf, FunctionNegativeInfinity>>,
           <<se.FuncEvaluations > 0 /\ FuncTotal(st) >= se.FuncEvaluations,
             FunctionEvaluationLimit>>,
           <<se.GradEvaluations > 0 /\ GradTotal(st) >= se.GradEvaluations,
             GradientEvaluationLimit>>,
           <<se.HessEvaluations > 0 /\ HessTotal(st) >= se.HessEvaluations,
             HessianEvaluationLimit>>,
           <<se.Runtime > 0 /\ st.Runtime >= se.Runtime, RuntimeLimit>>,
           <<it = MajorIteration /\ se.MajorIterations > 0
               /\ st.MajorIterations >= se.MajorIterations,
             IterationLimit>> >>

\* C1: checkConvergence returns the status of the first rule that matches, in
\* the order gradient threshold, function threshold (both only on an initial
\* or major iteration), negative infinity, function, gradient and Hessian
\* evaluation limits, runtime limit, iteration limit (only on a major
\* iteration), and NotTerminated if none does; a limit of zero never
\* triggers.
C1_FirstMatchingRule ==
    pc = "checked" =>
      /\ status = FirstMatch(ConvergenceRules(optLoc, iterType, stats, settings), 1)
      /\ settings.FuncEvaluations = 0 => status # FunctionEvaluationLimit
      /\ settings.GradEvaluations = 0 => status # GradientEvaluationLimit
      /\ settings.HessEvaluations = 0 => status # HessianEvaluationLimit
      /\ settings.Runtime = 0 => status # RuntimeLimit
      /\ settings.MajorIterations = 0 => status # IterationLimit

\* a call at which the function limit is met exactly and later rules match too
C1_Witness ==
    /\ pc = "checked"
    /\ status = FunctionEvaluationLimit
    /\ FuncTotal(stats) = settings.FuncEvaluations
    /\ settings.GradEvaluations > 0 /\ GradTotal(stats) >= settings.GradEvaluations
    /\ iterType = MajorIteration
    /\ settings.MajorIterations > 0
    /\ stats.MajorIterations >= settings.MajorIterations

\* the entry points of the objective one call of evaluate invoked
Invoked(func, grad, funcGrad, funcGradHess, hess) ==
    /\ calls'.Func = calls.Func + func
    /\ calls'.Grad = calls.Grad + grad
    /\ calls'.FuncGrad = calls.FuncGrad + funcGrad
    /\ calls'.FuncGradHess = calls.FuncGradHess + funcGradHess
    /\ calls'.Hess = calls.Hess + hess
\* the counters of Stats one call of evaluate incremented
Counted(func, grad, funcGrad, funcGradHess, hess) ==
    /\ stats'.FuncEvaluations = stats.FuncEvaluations + func
    /\ stats'.GradEvaluations = stats.GradEvaluations + grad
    /\ stats'.FuncGradEvaluations = stats.FuncGradEvaluations + funcGrad
    /\ stats'.FuncGradHessEvaluations = stats.FuncGradHessEvaluations + funcGradHess
    /\ stats'.HessEvaluations = stats.HessEvaluations + hess
    /\ stats'.MajorIterations = stats.MajorIterations
    /\ stats'.Runtime = stats.Runtime
FuncGradReturns ==
    pc = "evaluate" /\ evalType = FuncGradEvaluation /\ pc' = "evaluated"

\* C2 as stated: for FuncGradEvaluation the combined function+gradient call is
\* used if the objective has it, else the combined triple if it has that, and
\* the two bare calls only if it has neither.
C2_TripleBeforeBare ==
    [][FuncGradReturns =>
         IF funcInfo.IsFunctionGradient
         THEN Invoked(0, 0, 1, 0, 0) /\ Counted(0, 0, 1, 0, 0)
         ELSE IF funcInfo.IsFunctionGradientHessian
         THEN Invoked(0, 0, 0, 1, 0) /\ Counted(0, 0, 0, 1, 0)
         ELSE Invoked(1, 1, 0, 0, 0) /\ Counted(1, 1, 0, 0, 0)]_vars

\* C2 amended: for FuncGradEvaluation the combined function+gradient call is
\* used if the objective has it, else the bare function and the bare gradient
\* if it has a bare gradient, and the combined triple only if it has neither.
C2_BareBeforeTriple ==
    [][FuncGradReturns =>
         IF funcInfo.IsFunctionGradient
         THEN Invoked(0, 0, 1, 0, 0) /\ Counted(0, 0, 1, 0, 0)
         ELSE IF funcInfo.IsGradient
         THEN Invoked(1, 1, 0, 0, 0) /\ Counted(1, 1, 0, 0, 0)
         ELSE Invoked(0, 0, 0, 1, 0) /\ Counted(0, 0, 0, 1, 0)]_vars

\* FuncGradEvaluation on an objective with the triple and a bare gradient but
\* no combined function+gradient: the two bare calls were made
C2_Witness ==
    /\ pc = "evaluated"
    /\ evalType = FuncGradEvaluation
    /\ funcInfo.IsGradient /\ funcInfo.IsFunctionGradientHessian
    /\ ~funcInfo.IsFunctionGradient
    /\ calls = [ZeroCalls EXCEPT !.Func = 1, !.Grad = 1]

(***************************************************************************)
(* Properties of a run of Local.                                           *)
(***************************************************************************)
Returned == pc = "returned" /\ result.kind = "Result"
Count(ev, what) == Cardinality({i \in 1..Len(ev) : ev[i] = what})
\* the errors Local returns before it looks at the starting location
ConfigErrors == {ErrSatisfies, ErrStatuser, ErrRecorderInit}
\* the starting function value and the starting gradient, nil if no gradient
\* is tracked
StartF ==
    IF settings.UseInitialData THEN settings.InitialFunctionValue
    ELSE FuncAt(objective, InitX)
StartGradient ==
    IF ~method.NeedsGradient THEN <<>>
    ELSE IF settings.UseInitialData THEN settings.InitialGradient
    ELSE GradAt(objective, InitX)
Some(g, P(_)) == \E i \in 1..Len(g) : P(g[i])
IsEitherInf(v) == v = PosInf \/ v = NegInf

\* C3 as stated: every Result that Local returns, with or without an error,
\* carries a Status other than NotTerminated.
C3_ResultStatusTerminal ==
    Returned => result.Status \in TerminalStatuses

\* rules 1 to 3 of the convergence check do not match the starting location
NothingReachedAtStart ==
    /\ ~(StartGradient # <<>> /\ Lt(Norm(StartGradient), settings.GradientAbsTol))
    /\ ~Lt(StartF, settings.FunctionAbsTol)
    /\ StartF # NegInf
CapOfOne ==
    /\ Returned
    /\ settings.FuncEvaluations = 1
    /\ ~settings.UseInitialData
    /\ NothingReachedAtStart

\* C4 as stated: with a function-evaluation limit of 1, the starting point
\* evaluated by the driver and nothing reached at the start, the run ends
\* with FunctionEvaluationLimit after exactly one function evaluation beyond
\* the starting one.
C4_OneEvaluationBeyondStart ==
    CapOfOne =>
      /\ result.Status = FunctionEvaluationLimit
      /\ FuncTotal(result.Stats) = 1 + 1

\* C4 amended: with a function-evaluation limit of 1, the starting point
\* evaluated by the driver and nothing reached at the start, the run ends
\* with FunctionEvaluationLimit on the starting evaluation alone: the
\* starting evaluation is the one function evaluation, the method is never
\* called and the loop is never entered, whatever the method.
C4_StartingEvaluationIsTheOne ==
    CapOfOne =>
      /\ result.Status = FunctionEvaluationLimit
      /\ FuncTotal(result.Stats) = 1
      /\ TotalCalls(calls) \in {1, 2}
      /\ Count(events, "evaluate") = 1
      /\ Count(events, "Method.Init") = 0
      /\ steps = 0

C4_Witness ==
    /\ CapOfOne
    /\ settings.GradientAbsTol > 0
    /\ result.Status = FunctionEvaluationLimit
    /\ calls = [ZeroCalls EXCEPT !.Func = 1, !.Grad = 1]

\* the check is made once for the location the events are about
CheckedOnce ==
    /\ Count(events, "checkConvergence") <= 1
    /\ Count(events, "Record") <= 1
    /\ steps = 0 /\ pc \in {"minimize", "loop", "finish"}
         => Count(events, "checkConvergence") = 1
    /\ steps > 0 /\ pc = "record" => Count(events, "checkConvergence") = 1
Before(ev, a, b) ==
    \A j \in 1..Len(ev) : ev[j] = b => \E i \in 1..(j - 1) : ev[i] = a

\* C5 as stated: the convergence check is run exactly once for the starting
\* location and once for each location produced in the loop, and for every
\* such location it is executed before the Recorder's Record for it.
C5_CheckBeforeEveryRecord ==
    CheckedOnce /\ Before(events, "checkConvergence", "Record")

\* C5 amended: the convergence check is run exactly once for the starting
\* location and once for each location produced in the loop; for a location
\* produced in the loop it is executed before the Recorder's Record for that
\* location, for the starting location it is executed after it.
C5_CheckBeforeLoopRecord ==
    /\ CheckedOnce
    /\ steps > 0 => Before(events, "checkConvergence", "Record")
    /\ steps = 0 /\ settings.HasRecorder
         => Before(events, "Record", "checkConvergence")

C5_Witness ==
    /\ settings.HasRecorder
    /\ steps = 2
    /\ pc = "finish"
    /\ events = <<"Status", "evaluate", "checkConvergence", "Record">>

\* the sentinel a starting location calls for, "nil" if none
Sentinel ==
    IF IsNaN(StartF) THEN ErrNaN
    ELSE IF StartF = PosInf THEN ErrInf
    ELSE IF Some(StartGradient, IsNaN) /\ ~Some(StartGradient, IsEitherInf)
    THEN ErrGradNaN
    ELSE IF Some(StartGradient, IsEitherInf) /\ ~Some(StartGradient, IsNaN)
    THEN ErrGradInf
    ELSE NoErr
\* Local has returned, and not for the method, the probe or Recorder.Init
ReturnedPastSetup == pc = "returned" /\ err \notin ConfigErrors

\* C6 as stated: a starting function value of NaN or +Inf, or a starting
\* gradient component of NaN or +/-Inf, makes Local return the sentinel
\* error together with a Result holding the starting location and Stats.
C6_SentinelWithResult ==
    ReturnedPastSetup /\ Sentinel # NoErr =>
      /\ err = Sentinel
      /\ result.kind = "Result"
      /\ result.Location.X = InitX
      /\ result.Location.F = StartF
      /\ result.Stats = stats

\* C6 amended: a starting function value of NaN or +Inf, or a starting
\* gradient component of NaN or +/-Inf, makes Local return the sentinel
\* error and no Result (nil).
C6_SentinelWithoutResult ==
    ReturnedPastSetup /\ Sentinel # NoErr =>
      /\ err = Sentinel
      /\ result = NilResult

C6_Witness ==
    /\ ReturnedPastSetup
    /\ Sentinel = ErrGradInf
    /\ StartGradient = Vec(NegInf)
    /\ err = ErrGradInf
    /\ calls.Func = 1 /\ calls.Grad = 1

\* C7: if the starting function value is NaN the run ends at once with
\* ErrNaN: the method's Init and Iterate and the Recorder's Record are never
\* called, and the objective is evaluated by the starting evaluation alone.
C7_NaNStartStopsAtOnce ==
    IsNaN(StartF) =>
      /\ pc \in {"Local", "getStartingLocation", "returned", "panic"}
      /\ ReturnedPastSetup => err = ErrNaN
      /\ \A i \in 1..Len(events) :
           events[i] \notin {"Method.Init", "Iterate", "Record", "Record.Post"}
      /\ Count(events, "evaluate") <= 1
      /\ steps = 0
      /\ \/ calls = ZeroCalls
         \/ calls = [ZeroCalls EXCEPT !.Func = 1]
         \/ calls = [ZeroCalls EXCEPT !.Func = 1, !.Grad = 1]
         \/ calls = [ZeroCalls EXCEPT !.FuncGrad = 1]
         \/ calls = [ZeroCalls EXCEPT !.FuncGradHess = 1]

C7_Witness ==
    /\ IsNaN(StartF)
    /\ pc = "returned"
    /\ err = ErrNaN
    /\ settings.HasRecorder
    /\ calls = [ZeroCalls EXCEPT !.Func = 1, !.Grad = 1]

\* C8 as stated: with no method given, the panic for the missing
\* gradient-free default happens only for an objective with no gradient
\* information in any of its capabilities.
C8_DefaultForEveryGradient ==
    pc = "panic" /\ method.IsNil =>
      ~(funcInfo.IsGradient \/ funcInfo.IsFunctionGradient
          \/ funcInfo.IsFunctionGradientHessian)

\* C9: every counter of Stats is non-decreasing from step to step, each
\* evaluation counter equals the number of calls of its kind that evaluate
\* made, and the Stats of the Result are those counters.
CountersAreCalls(st, cl) ==
    /\ st.FuncEvaluations = cl.Func
    /\ st.GradEvaluations = cl.Grad
    /\ st.FuncGradEvaluations = cl.FuncGrad
    /\ st.FuncGradHessEvaluations = cl.FuncGradHess
    /\ st.HessEvaluations = cl.Hess
C9_CountersCountCalls ==
    [][/\ \A c \in {"FuncEvaluations", "GradEvaluations", "FuncGradEvaluations",
                    "FuncGradHessEvaluations", "HessEvaluations",
                    "MajorIterations"} : stats'[c] >= stats[c]
       /\ CountersAreCalls(stats', calls')
       /\ result'.kind = "Result" =>
            /\ CountersAreCalls(result'.Stats, calls')
            /\ result'.Stats.MajorIterations = stats'.MajorIterations]_vars

C9_Witness ==
    /\ Returned
    /\ calls.Func = 2 /\ calls.Grad = 2 /\ calls.Hess = 1
    /\ result.Stats.MajorIterations = 2

\* C10 as stated: the F of the best-known location is less than or equal to
\* the F of every working location seen so far.
C10_BestBelowAllSeen ==
    \A f \in seen : Le(optLoc.F, f)

\* C10 amended: the F of the best-known location is never NaN and is less
\* than or equal to the F of every working location seen so far whose F is
\* not NaN.
C10_BestBelowAllSeenNumbers ==
    seen # {} =>
      /\ ~IsNaN(optLoc.F)
      /\ \A f \in seen : ~IsNaN(f) => Le(optLoc.F, f)

C10_Witness ==
    /\ pc = "record"
    /\ steps = 2
    /\ seen = {0, 1, NaN}
    /\ optLoc.F = 0
    /\ loc.F = 1

(***************************************************************************)
(* Properties of one call of evaluate.                                     *)
(***************************************************************************)
Requested(et) == pc = "evaluate" /\ evalType = et
Returns(et) == Requested(et) /\ pc' = "evaluated"
Panics(et) == Requested(et) /\ pc' = "panic"

\* C11: a GradEvaluation request makes exactly one call of the objective, the
\* bare gradient if the objective has it, else the combined function+gradient,
\* else the combined triple; a HessEvaluation request makes exactly one call,
\* the bare Hessian if the objective has it, else the combined triple; the
\* counter of that call goes up by one and no other counter changes.
C11_OneCallByPriority ==
    [][/\ Returns(GradEvaluation) =>
            IF funcInfo.IsGradient
            THEN Invoked(0, 1, 0, 0, 0) /\ Counted(0, 1, 0, 0, 0)
            ELSE IF funcInfo.IsFunctionGradient
            THEN Invoked(0, 0, 1, 0, 0) /\ Counted(0, 0, 1, 0, 0)
            ELSE /\ funcInfo.IsFunctionGradientHessian
                 /\ Invoked(0, 0, 0, 1, 0) /\ Counted(0, 0, 0, 1, 0)
       /\ Returns(HessEvaluation) =>
            IF funcInfo.IsHessian
            THEN Invoked(0, 0, 0, 0, 1) /\ Counted(0, 0, 0, 0, 1)
            ELSE /\ funcInfo.IsFunctionGradientHessian
                 /\ Invoked(0, 0, 0, 1, 0) /\ Counted(0, 0, 0, 1, 0)
       /\ Panics(GradEvaluation) =>
            ~(funcInfo.IsGradient \/ funcInfo.IsFunctionGradient
                \/ funcInfo.IsFunctionGradientHessian)
       /\ Panics(HessEvaluation) =>
            ~(funcInfo.IsHessian \/ funcInfo.IsFunctionGradientHessian)]_vars

\* GradEvaluation served by the bare gradient although the objective has
\* both combined forms too
C11_Witness ==
    /\ pc = "evaluated"
    /\ evalType = GradEvaluation
    /\ funcInfo.IsGradient /\ funcInfo.IsFunctionGradient
    /\ funcInfo.IsFunctionGradientHessian
    /\ calls = [ZeroCalls EXCEPT !.Grad = 1]
    /\ stats.GradEvaluations = 3

\* the objective has the bare function and the bare gradient and neither
\* combined form
OnlyBare == /\ funcInfo.IsGradient
            /\ ~funcInfo.IsFunctionGradient
            /\ ~funcInfo.IsFunctionGradientHessian

\* C12: a FuncGradEvaluation request on an objective with only the bare
\* function and the bare gradient returns, adds one to the function counter
\* and one to the gradient counter, and changes no other counter.
C12_BareDecomposition ==
    [][Requested(FuncGradEvaluation) /\ OnlyBare =>
         /\ pc' = "evaluated"
         /\ Counted(1, 1, 0, 0, 0)
         /\ Invoked(1, 1, 0, 0, 0)]_vars

C12_Witness ==
    /\ pc = "evaluated"
    /\ evalType = FuncGradEvaluation
    /\ OnlyBare /\ ~funcInfo.IsHessian
    /\ stats = [ZeroStats EXCEPT !.FuncEvaluations = 1, !.GradEvaluations = 1]
    /\ calls = [ZeroCalls EXCEPT !.Func = 1, !.Grad = 1]

\* C13: a NoEvaluation request at a candidate point that differs by content
\* from the location's X panics with every counter of Stats unchanged; at the
\* location's X it returns with no call of the objective and with Stats and
\* the location unchanged.
C13_NoEvaluation ==
    [][Requested(NoEvaluation) =>
         IF loc.X = xNext
         THEN /\ pc' = "evaluated"
              /\ Invoked(0, 0, 0, 0, 0)
              /\ stats' = stats
              /\ loc' = loc
         ELSE /\ pc' = "panic"
              /\ Invoked(0, 0, 0, 0, 0)
              /\ stats' = stats]_vars

\* the panic, with the candidate already copied into the location
C13_Witness ==
    /\ pc = "panic"
    /\ evalType = NoEvaluation
    /\ loc.X = xNext
    /\ loc.F = 0 /\ loc.Gradient = Vec(1) /\ loc.Hessian = <<1>>
    /\ stats.HessEvaluations = 5
    /\ calls = ZeroCalls

\* what one call of evaluate computed, by the entry points it invoked
ComputedF ==
    calls'.Func > calls.Func \/ calls'.FuncGrad > calls.FuncGrad
      \/ calls'.FuncGradHess > calls.FuncGradHess
ComputedGradient ==
    calls'.Grad > calls.Grad \/ calls'.FuncGrad > calls.FuncGrad
      \/ calls'.FuncGradHess > calls.FuncGradHess
ComputedHessian ==
    calls'.Hess > calls.Hess \/ calls'.FuncGradHess > calls.FuncGradHess

\* C18: when a call of evaluate that returns moves the location to a
\* candidate X that differs by content from its X, each of F, Gradient and
\* Hessian that the call did not compute at the new X is marked with NaN
\* afterwards (F, Gradient[0], Hessian[0][0], the latter two if allocated);
\* when the candidate is the location's X, what the call did not compute is
\* left as it was.
C18_StaleFieldsInvalidated ==
    [][pc = "evaluate" /\ pc' = "evaluated" =>
         /\ loc'.X = xNext
         /\ IF loc.X # xNext
            THEN /\ ~ComputedF => IsNaN(loc'.F)
                 /\ ~ComputedGradient /\ loc'.Gradient # <<>>
                      => IsNaN(loc'.Gradient[1])
                 /\ ~ComputedHessian /\ loc'.Hessian # <<>>
                      => IsNaN(loc'.Hessian[1])
            ELSE /\ ~ComputedF => loc'.F = loc.F
                 /\ ~ComputedGradient => loc'.Gradient = loc.Gradient
                 /\ ~ComputedHessian => loc'.Hessian = loc.Hessian]_vars

\* a bare function evaluation at a new X: the stale gradient and the stale
\* Hessian are marked
C18_Witness ==
    /\ pc = "evaluated"
    /\ evalType = FuncEvaluation
    /\ calls = [ZeroCalls EXCEPT !.Func = 1]
    /\ loc.X = Vec(1)
    /\ loc.F = 0
    /\ loc.Gradient # <<>> /\ IsNaN(loc.Gradient[1])
    /\ loc.Hessian = <<NaN>>

(***************************************************************************)
(* Further properties of a run of Local.                                   *)
(***************************************************************************)
\* a gradient is tracked and the starting gradient is within the tolerance
GradientWithinTol ==
    /\ pc # "Local"
    /\ StartGradient # <<>>
    /\ Lt(Norm(StartGradient), settings.GradientAbsTol)
\* the run stops at the first check with GradientThreshold
StopsAtGradientThreshold ==
    /\ pc \notin {"minimize", "loop", "record"}
    /\ steps = 0
    /\ Count(events, "Method.Init") = 0 /\ Count(events, "Iterate") = 0
    /\ Count(events, "evaluate") <= 1
    /\ TotalCalls(calls) <= 2
    /\ pc = "finish" => status = GradientThreshhold
    /\ ReturnedPastSetup =>
         result.kind = "Result" /\ result.Status = GradientThreshhold

\* C14 as stated: if a gradient is tracked and its infinity-norm at the start
\* is below GradientAbsTol, Local returns the status GradientThreshold from
\* the first convergence check, the method's Init and Iterate are never
\* called and the objective is not evaluated after the starting evaluation.
C14_GradientThresholdAtStart ==
    GradientWithinTol => StopsAtGradientThreshold

\* C14 amended: if a gradient is tracked, its infinity-norm at the start is
\* below GradientAbsTol and the starting function value is neither NaN nor
\* +Inf, Local returns the status GradientThreshold from the first
\* convergence check, the method's Init and Iterate are never called and the
\* objective is not evaluated after the starting evaluation.
C14_GradientThresholdAtValidStart ==
    GradientWithinTol /\ ~IsNaN(StartF) /\ StartF # PosInf
      => StopsAtGradientThreshold

\* the threshold met by an evaluated starting gradient of norm 1
C14_Witness ==
    /\ GradientWithinTol
    /\ Returned
    /\ result.Status = GradientThreshhold
    /\ result.Location.Gradient = Vec(1)
    /\ settings.GradientAbsTol = 2
    /\ calls = [ZeroCalls EXCEPT !.Func = 1, !.Grad = 1]

\* C15: in the loop, a Record that returns an error ends the run at once
\* with that error: no probe of the method, no Iterate and no further
\* evaluation follow, and the status returned is Failure if the convergence
\* check of that location gave NotTerminated and the status of that check
\* otherwise.
C15_RecordFailureInLoop ==
    [][/\ pc = "record" /\ err' = ErrRecord =>
            /\ pc' = "finish"
            /\ status' = (IF status = NotTerminated THEN Failure ELSE status)
            /\ status' = Failure <=> status \in {NotTerminated, Failure}
            /\ events' = Append(events, "Record")
            /\ calls' = calls
            /\ loc' = loc
       /\ pc = "finish" /\ err = ErrRecord =>
            /\ pc' = "returned"
            /\ err' = ErrRecord
            /\ result' = Result(optLoc, stats', status)
            /\ events' = events
            /\ calls' = calls]_vars

\* a Record that failed on a location that reached the iteration limit
C15_Witness ==
    /\ Returned
    /\ steps = 1
    /\ err = ErrRecord
    /\ result.Status = IterationLimit
    /\ Count(events, "Record") = 1
    /\ Count(events, "Iterate") = 0

\* C16: if the objective cannot provide what the method needs, or
\* Recorder.Init returns an error, Local returns that error and no Result
\* and has not evaluated the objective; Recorder.Init is called at most once
\* in a run, and before the first evaluation.
C16_ConfigurationFirst ==
    /\ pc # "Local" /\ ~method.IsNil /\ ~satisfies(funcInfo, method) =>
         pc = "returned" /\ err = ErrSatisfies
    /\ pc = "returned" /\ err \in {ErrSatisfies, ErrRecorderInit} =>
         /\ result = NilResult
         /\ calls = ZeroCalls
         /\ stats = ZeroStats
         /\ Count(events, "evaluate") = 0
    /\ Count(events, "Recorder.Init") <= 1
    /\ Count(events, "Recorder.Init") = 1 <=>
         settings.HasRecorder /\ steps = 0 /\ pc \notin {"Local", "panic"}
           /\ ~(pc = "returned" /\ err \in {ErrSatisfies, ErrStatuser})
    /\ settings.HasRecorder /\ steps = 0 => Before(events, "Recorder.Init", "evaluate")
    /\ settings.HasRecorder /\ calls # ZeroCalls /\ steps = 0 =>
         Count(events, "Recorder.Init") = 1

\* Recorder.Init failed: nothing evaluated and no Result
C16_Witness ==
    /\ pc = "returned"
    /\ err = ErrRecorderInit
    /\ result = NilResult
    /\ events = <<"Status", "Recorder.Init">>
    /\ calls = ZeroCalls

(***************************************************************************)
(* Runs with a limit on the major iterations and a method that asks for a  *)
(* major iteration every time.  Every call returns: a step that can be     *)
(* taken is taken.                                                         *)
(***************************************************************************)
InitMajor == Init /\ settings.MajorIterations \in 1..MaxSteps
MajorInit == MinimizeInit /\ (pc' = "loop" => iterType' = MajorIteration)
MajorAdvance == LoopAdvance /\ (pc' = "loop" => iterType' = MajorIteration)
NextMajor ==
    \/ LocalConfigure
    \/ LocalStartingLocation
    \/ LocalCheckStart
    \/ MajorInit
    \/ LoopEvaluate
    \/ MajorAdvance
    \/ LocalFinish
SpecMajor == InitMajor /\ [][NextMajor]_vars /\ WF_vars(NextMajor)

\* Local has returned, or the run has ended in a panic
Ended == pc \in {"returned", "panic"}
\* no iteration of the loop starts once the limit has been reached
WithinIterationLimit ==
    /\ stats.MajorIterations <= settings.MajorIterations
    /\ steps <= settings.MajorIterations
    /\ pc = "loop" => steps < settings.MajorIterations
    /\ pc = "record" /\ steps = settings.MajorIterations
         => status # NotTerminated
Adds(what) == Count(events', what) > Count(events, what)

\* C17 as stated: with a positive limit N on the major iterations and a
\* method that keeps asking for major iterations, the run ends, it ends no
\* later than the N-th major iteration, and once a status other than
\* NotTerminated has been determined there is no evaluate, no Iterate and no
\* Record but the post-iteration one.
C17_EndsAndStopsCalling ==
    /\ <>Ended
    /\ []WithinIterationLimit
    /\ [][status # NotTerminated =>
            /\ calls' = calls
            /\ ~Adds("evaluate") /\ ~Adds("Iterate") /\ ~Adds("Record")]_vars

\* C17 amended: with a positive limit N on the major iterations and a method
\* that keeps asking for major iterations, the run ends, it ends no later
\* than the N-th major iteration, and once a status other than NotTerminated
\* has been determined there is no evaluate, no Iterate and no Record but
\* the Record of the location whose check determined the status and the
\* post-iteration one.
C17_EndsAfterRecordingLast ==
    /\ <>Ended
    /\ []WithinIterationLimit
    /\ [][status # NotTerminated =>
            /\ calls' = calls
            /\ ~Adds("evaluate") /\ ~Adds("Iterate")
            /\ Adds("Record") =>
                 pc = "record" /\ events' = Append(events, "Record")]_vars

\* the limit of two major iterations reached in the second one, and recorded
C17_Witness ==
    /\ Returned
    /\ settings.MajorIterations = 2
    /\ result.Status = IterationLimit
    /\ result.Stats.MajorIterations = 2
    /\ steps = 2
    /\ events = <<"Status", "evaluate", "checkConvergence", "Record", "Record.Post">>

(***************************************************************************)
(* The locations the method is handed, and one step of the loop.           *)
(***************************************************************************)
\* the method has just been called with loc: Init(loc, ...) or Iterate(loc, ...)
HandedToMethod ==
    /\ events # <<>>
    /\ events[Len(events)] \in {"Method.Init", "Iterate"}
\* the caller's initial data are data for the starting point
SuppliedF(l) ==
    settings.UseInitialData /\ l.X = InitX /\ l.F = settings.InitialFunctionValue
SuppliedGradient(l) ==
    settings.UseInitialData /\ l.X = InitX /\ l.Gradient = settings.InitialGradient
ValidF(l) == IsNaN(l.F) \/ l.F = FuncAt(objective, l.X) \/ SuppliedF(l)
ValidGradient(l) ==
    l.Gradient # <<>> =>
      \/ IsNaN(l.Gradient[1])
      \/ l.Gradient = GradAt(objective, l.X)
      \/ SuppliedGradient(l)
ValidHessian(l) ==
    l.Hessian # <<>> => IsNaN(l.Hessian[1]) \/ l.Hessian[1] = HessAt(objective, l.X)

\* C19 as stated: in every Location handed to the method, at Init and at each
\* Iterate, each of F, Gradient and Hessian that is allocated is the value
\* computed (or supplied as initial data) for the Location's X, or is marked
\* with NaN; the Hessian of the starting location included.
C19_NoStaleField ==
    HandedToMethod => ValidF(loc) /\ ValidGradient(loc) /\ ValidHessian(loc)

\* what does hold: F and the gradient are always valid or marked, and so is
\* a Hessian that is not the untouched one of the starting location
C19_StaleOnlyStartingHessian ==
    HandedToMethod =>
      /\ ValidF(loc) /\ ValidGradient(loc)
      /\ ValidHessian(loc) \/ (method.NeedsHessian /\ loc.Hessian = <<0>>)

\* C20: in each step of the loop, after evaluate, the counter of major
\* iterations goes up by one if the step is a MajorIteration and is unchanged
\* otherwise; the best-known location becomes a copy of the working location
\* if the working F <= the best-known F, an equal F included, and is left
\* exactly as it was otherwise.
C20_UpdateStep ==
    [][pc = "loop" /\ pc' = "record" =>
         /\ stats'.MajorIterations =
              stats.MajorIterations + (IF iterType = MajorIteration THEN 1 ELSE 0)
         /\ IF Le(loc'.F, optLoc.F)
            THEN optLoc' = loc'
            ELSE optLoc' = optLoc]_vars

\* a tie: the newer point, with the same F, has replaced the starting point
C20_Witness ==
    /\ pc = "record"
    /\ steps = 1
    /\ seen = {0}
    /\ optLoc = loc
    /\ optLoc.X = Vec(1)
    /\ iterType = MinorIteration
    /\ stats.MajorIterations = 0

(***************************************************************************)
(* The capabilities evaluate relies on, and the limits of a run.           *)
(***************************************************************************)
\* some combination of the objective's capabilities can serve the request
Satisfiable(et, fi) ==
    CASE et = NoEvaluation -> TRUE
      [] et = FuncEvaluation -> TRUE
      [] et = GradEvaluation ->
           fi.IsGradient \/ fi.IsFunctionGradient \/ fi.IsFunctionGradientHessian
      [] et = HessEvaluation -> fi.IsHessian \/ fi.IsFunctionGradientHessian
      [] et = FuncGradEvaluation ->
           fi.IsGradient \/ fi.IsFunctionGradient \/ fi.IsFunctionGradientHessian
      [] et = FuncGradHessEvaluation ->
           fi.IsFunctionGradientHessian \/ (fi.IsGradient /\ fi.IsHessian)
      [] OTHER -> FALSE

\* C22: evaluate calls only entry points the objective has: a call of Grad
\* needs IsGradient, of FuncGrad IsFunctionGradient, of Hess IsHessian, of
\* FuncGradHess IsFunctionGradientHessian; a request that no combination of
\* capabilities can serve, or of an unknown form, panics with no call of the
\* objective made and no counter of Stats changed, and any other request
\* (but NoEvaluation at a new point) returns.
C22_OnlySupportedCalls ==
    [][pc = "evaluate" =>
         /\ calls'.Grad > calls.Grad => funcInfo.IsGradient
         /\ calls'.FuncGrad > calls.FuncGrad => funcInfo.IsFunctionGradient
         /\ calls'.Hess > calls.Hess => funcInfo.IsHessian
         /\ calls'.FuncGradHess > calls.FuncGradHess
              => funcInfo.IsFunctionGradientHessian
         /\ ~Satisfiable(evalType, funcInfo) =>
              pc' = "panic" /\ calls' = calls /\ stats' = stats
         /\ Satisfiable(evalType, funcInfo) =>
              \/ pc' = "evaluated"
              \/ evalType = NoEvaluation /\ loc.X # xNext /\ pc' = "panic"]_vars

\* FuncGradHessEvaluation asked of an objective with a bare gradient and no
\* Hessian of any kind: the panic, nothing called, nothing counted
C22_Witness ==
    /\ pc = "panic"
    /\ evalType = FuncGradHessEvaluation
    /\ funcInfo.IsGradient /\ funcInfo.IsFunctionGradient
    /\ ~funcInfo.IsHessian /\ ~funcInfo.IsFunctionGradientHessian
    /\ calls = ZeroCalls
    /\ stats.FuncEvaluations = 1 /\ stats.GradEvaluations = 2

\* C23: in every state of a run, each total that has a positive limit is at
\* most that limit: function evaluations (bare, combined, triple), gradient
\* evaluations (bare, combined, triple), Hessian evaluations (bare, triple)
\* and major iterations; one call of evaluate raises each total by at most
\* one.
C23_LimitsNotOvershot ==
    /\ settings.FuncEvaluations > 0 => FuncTotal(stats) <= settings.FuncEvaluations
    /\ settings.GradEvaluations > 0 => GradTotal(stats) <= settings.GradEvaluations
    /\ settings.HessEvaluations > 0 => HessTotal(stats) <= settings.HessEvaluations
    /\ settings.MajorIterations > 0
         => stats.MajorIterations <= settings.MajorIterations
    /\ FuncTotal(stats) = calls.Func + calls.FuncGrad + calls.FuncGradHess
    /\ FuncTotal(stats) <= 1 + steps
    /\ GradTotal(stats) <= 1 + steps
    /\ HessTotal(stats) <= 1 + steps

\* the limit of two function evaluations met exactly, in the loop
C23_Witness ==
    /\ Returned
    /\ settings.FuncEvaluations = 2
    /\ FuncTotal(result.Stats) = 2
    /\ result.Status = FunctionEvaluationLimit
    /\ steps = 1

(***************************************************************************)
(* The objective's probe in the loop.                                      *)
(***************************************************************************)
\* the probe answered with an error or with a status other than NotTerminated
Stopping(a) == a[2] # NoErr \/ a[1] # NotTerminated
\* one iteration of the loop of an objective with a probe: the probe comes
\* first, and an answer that stops the run leaves everything else alone
ProbedFirst ==
    pc = "loop" /\ funcInfo.IsStatuser =>
      /\ events' # <<>> /\ events'[1] = "Status"
      /\ Count(events', "Status") = 1
      /\ IF Stopping(probe')
         THEN /\ pc' = "finish"
              /\ status' = probe'[1]
              /\ err' = probe'[2]
              /\ events' = <<"Status">>
              /\ calls' = calls
              /\ stats' = stats
              /\ loc' = loc
              /\ optLoc' = optLoc
         ELSE pc' \in {"record", "panic"}
\* the run is about to return after a probe has stopped it
StoppedByProbe == pc = "finish" /\ steps > 0 /\ events = <<"Status">>

\* C21 as stated: in every iteration the objective's probe, if there is one,
\* is asked before the evaluation; if it answers with an error or a status
\* other than NotTerminated the run ends with exactly that status and that
\* error, and the iteration has no evaluation, no change of Stats, no Record
\* and no call of the method.
C21_ProbeStopsRun ==
    [][/\ ProbedFirst
       /\ StoppedByProbe =>
            /\ pc' = "returned"
            /\ calls' = calls
            /\ result'.Status = probe[1]
            /\ err' = probe[2]]_vars

\* C21 amended: in every iteration the objective's probe, if there is one, is
\* asked before the evaluation; if it answers with an error or a status other
\* than NotTerminated the loop ends with exactly that status and that error,
\* and the iteration has no evaluation, no change of Stats, no Record and no
\* call of the method; Local returns that status, and that error unless the
\* probe gave none and the post-iteration Record then fails, whose error is
\* returned.
C21_ProbeStopsLoop ==
    [][/\ ProbedFirst
       /\ StoppedByProbe =>
            /\ pc' = "returned"
            /\ calls' = calls
            /\ result'.Status = probe[1]
            /\ IF probe[2] = NoErr /\ settings.HasRecorder
               THEN /\ events' = <<"Status", "Record.Post">>
                    /\ err' \in {NoErr, ErrRecord}
               ELSE /\ events' = events
                    /\ err' = probe[2]]_vars

\* the probe stops the second iteration with an error and no status
C21_Witness ==
    /\ Returned
    /\ steps = 2
    /\ probe = <<NotTerminated, ErrStatuser>>
    /\ err = ErrStatuser
    /\ result.Status = NotTerminated
    /\ events = <<"Status">>
    /\ settings.HasRecorder
    /\ TotalCalls(calls) = 3
====
